---- MODULE Spec2Model ----
(***************************************************************************)
(* AdaptiveAnomalyDetector of app.py: a deque of at most window_size       *)
(* values and the decision abs(value - avg) > sensitivity * std_dev.       *)
(*                                                                         *)
(* Numbers.  A number is a record [kind, num, den]: kind "fin" is the      *)
(* rational num/den (den > 0), kinds "nan", "posinf", "neginf" are the     *)
(* non-finite floats.  Samples are integers (den = 1); the mean is the     *)
(* rational sum/n.  The standard deviation is carried by its square, the   *)
(* population variance, so that every comparison is exact integer          *)
(* arithmetic; rounding of IEEE doubles is not modelled.                   *)
(***************************************************************************)
EXTENDS Integers, Sequences, FiniteSets, TLC

VARIABLES
    pc,           \* "new" before __init__, "ready" once built, "error" if it raised
    window_size,  \* self.window_size
    sensitivity,  \* self.sensitivity, a rational
    values,       \* self.values, the deque, oldest first
    avg,          \* avg of the last is_anomaly call (NoStat if none computed)
    std_sq,       \* std_dev ** 2 of the last is_anomaly call
    result,       \* return value of the last is_anomaly call
    branch,       \* branch the last call took: "none", "warmup" or "active"
    ncalls,       \* history: number of is_anomaly calls made
    submitted     \* history: every value passed to is_anomaly, in call order

vars == <<pc, window_size, sensitivity, values, avg, std_sq, result, branch,
          ncalls, submitted>>

(* Calls explored after the window has filled. *)
MaxExtra == 2

-----------------------------------------------------------------------------
(* Numbers *)

Rat(n, d) == [kind |-> "fin", num |-> n, den |-> d]
Fin(n) == Rat(n, 1)
NaN == [kind |-> "nan", num |-> 0, den |-> 1]
PosInf == [kind |-> "posinf", num |-> 0, den |-> 1]
NegInf == [kind |-> "neginf", num |-> 0, den |-> 1]
NoStat == [kind |-> "none", num |-> 0, den |-> 1]

IsFinite(x) == x.kind = "fin"
AllFinite(s) == \A i \in 1..Len(s) : IsFinite(s[i])
HasKind(s, k) == \E i \in 1..Len(s) : s[i].kind = k

Abs(n) == IF n < 0 THEN -n ELSE n

(* The same number: equal rationals, or the same non-finite kind. *)
SameNum(a, b) ==
    IF IsFinite(a) /\ IsFinite(b)
    THEN a.num * b.den = b.num * a.den
    ELSE a.kind = b.kind

RECURSIVE Sum(_)
Sum(s) == IF s = <<>> THEN 0 ELSE Head(s).num + Sum(Tail(s))

(* sum((n*x - S)^2 for x in s): n^2 times the sum of squared deviations *)
RECURSIVE SumSqDev(_, _, _)
SumSqDev(s, n, S) ==
    IF s = <<>> THEN 0
    ELSE (n * Head(s).num - S) * (n * Head(s).num - S) + SumSqDev(Tail(s), n, S)

(* np.mean: nan on an empty sequence, on a nan and on inf + -inf; an        *)
(* infinity when only that infinity occurs; otherwise sum / n.              *)
np_mean(s) ==
    IF Len(s) = 0 THEN NaN
    ELSE IF HasKind(s, "nan") \/ (HasKind(s, "posinf") /\ HasKind(s, "neginf")) THEN NaN
    ELSE IF HasKind(s, "posinf") THEN PosInf
    ELSE IF HasKind(s, "neginf") THEN NegInf
    ELSE Rat(Sum(s), Len(s))

(* np.std squared: mean(abs(x - mean(x)) ** 2), dividing by n (ddof = 0).   *)
(* Any non-finite element makes x - mean nan (inf - inf), hence nan.        *)
np_std_sq(s) ==
    IF Len(s) = 0 \/ ~AllFinite(s) THEN NaN
    ELSE Rat(SumSqDev(s, Len(s), Sum(s)), Len(s) * Len(s) * Len(s))

ExceedsFlipped(value, a, ssq, sens) ==
    IF ~(IsFinite(value) /\ IsFinite(a) /\ IsFinite(ssq)) THEN FALSE
    ELSE LET dev == Abs(value.num * a.den - a.num)
         IN  dev * dev * sens.den * sens.den * ssq.den
                 < sens.num * sens.num * ssq.num * a.den * a.den

(* abs(value - avg) > sensitivity * std_dev.  A nan on either side compares *)
(* False.  With a negative sensitivity the threshold is negative (or -0.0   *)
(* when std_dev = 0); otherwise both sides are >= 0 and are compared by     *)
(* their squares: (dev/a.den)^2 > (sens.num/sens.den)^2 * ssq.num/ssq.den.   *)
Exceeds(value, a, ssq, sens) ==
    IF ~(IsFinite(value) /\ IsFinite(a) /\ IsFinite(ssq)) THEN FALSE
    ELSE LET dev == Abs(value.num * a.den - a.num)
         IN  IF sens.num < 0
             THEN ssq.num > 0 \/ dev > 0
             ELSE dev * dev * sens.den * sens.den * ssq.den
                      > sens.num * sens.num * ssq.num * a.den * a.den

-----------------------------------------------------------------------------
(* The deque *)

DequeAppendUnbounded(d, x, maxlen) == Append(d, x)

DequeAppendDropNewest(d, x, maxlen) ==
    IF Len(d) >= maxlen THEN d ELSE Append(d, x)

(* deque(maxlen=maxlen).append(x): a full deque discards its oldest item;   *)
(* with maxlen = 0 the deque stays empty.                                   *)
DequeAppend(d, x, maxlen) ==
    IF maxlen = 0 THEN <<>>
    ELSE IF Len(d) >= maxlen THEN Append(Tail(d), x)
    ELSE Append(d, x)

-----------------------------------------------------------------------------
(* The detector *)

StatsOverBefore(before, after) == before

(* update_window appends first and then takes np.mean / np.std of           *)
(* self.values: the statistics are those of the deque after the append.     *)
StatsOver(before, after) == after

update_window(vals, value, maxlen) ==
    LET after == DequeAppend(vals, value, maxlen)
    IN  [values  |-> after,
         avg     |-> np_mean(StatsOver(vals, after)),
         std_dev |-> np_std_sq(StatsOver(vals, after))]

InWarmupOffByOne(vals, ws) == Len(vals) < ws - 1

InWarmupFlipped(vals, ws) == Len(vals) > ws

(* len(self.values) < self.window_size *)
InWarmup(vals, ws) == Len(vals) < ws

(* AdaptiveAnomalyDetector(window_size, sensitivity).  deque(maxlen=n)      *)
(* raises ValueError for n < 0; nothing else is validated.                  *)
Construct(ws, s) ==
    /\ pc = "new"
    /\ IF ws < 0
       THEN /\ pc' = "error"
            /\ UNCHANGED <<window_size, sensitivity>>
       ELSE /\ pc' = "ready"
            /\ window_size' = ws
            /\ sensitivity' = s
    /\ values' = <<>>
    /\ UNCHANGED <<avg, std_sq, result, branch, ncalls, submitted>>

is_anomaly(value) ==
    /\ pc = "ready"
    /\ ncalls' = ncalls + 1
    /\ submitted' = Append(submitted, value)
    /\ IF InWarmup(values, window_size)
       THEN /\ values' = DequeAppend(values, value, window_size)
            /\ result' = FALSE
            /\ branch' = "warmup"
            /\ avg' = NoStat
            /\ std_sq' = NoStat
       ELSE LET st == update_window(values, value, window_size)
            IN  /\ values' = st.values
                /\ avg' = st.avg
                /\ std_sq' = st.std_dev
                /\ result' = Exceeds(value, st.avg, st.std_dev, sensitivity)
                /\ branch' = "active"
    /\ UNCHANGED <<pc, window_size, sensitivity>>

-----------------------------------------------------------------------------
(* Specifications *)

WindowSizes == {-1, 0, 1, 2, 3}
Sensitivities == {Rat(-1, 1), Rat(0, 1), Rat(1, 2), Rat(1, 1), Rat(2, 1)}
Samples == {Fin(10), Fin(11), Fin(50), NaN, PosInf, NegInf}

Init ==
    /\ pc = "new"
    /\ window_size = 0
    /\ sensitivity = Rat(0, 1)
    /\ values = <<>>
    /\ avg = NoStat
    /\ std_sq = NoStat
    /\ result = FALSE
    /\ branch = "none"
    /\ ncalls = 0
    /\ submitted = <<>>

Next ==
    \/ \E ws \in WindowSizes, s \in Sensitivities : Construct(ws, s)
    \/ \E v \in Samples : ncalls < window_size + MaxExtra /\ is_anomaly(v)

Spec == Init /\ [][Next]_vars

(* The second scenario: detector (4, 1.5) fed from 1, 2, 3, 4, 100. *)
Scenario2Samples == {Fin(1), Fin(2), Fin(3), Fin(4), Fin(100)}

InitScenario2 ==
    /\ pc = "ready"
    /\ window_size = 4
    /\ sensitivity = Rat(3, 2)
    /\ values = <<>>
    /\ avg = NoStat
    /\ std_sq = NoStat
    /\ result = FALSE
    /\ branch = "none"
    /\ ncalls = 0
    /\ submitted = <<>>

NextScenario2 ==
    \E v \in Scenario2Samples : ncalls < window_size + MaxExtra /\ is_anomaly(v)

SpecScenario2 == InitScenario2 /\ [][NextScenario2]_vars

-----------------------------------------------------------------------------
(* Properties *)

ValidConfig == pc = "ready" /\ window_size >= 1 /\ sensitivity.num > 0

Active == pc = "ready" /\ Len(values) = window_size

Min(a, b) == IF a < b THEN a ELSE b

LastN(s, n) == SubSeq(s, Len(s) - n + 1, Len(s))

(* The window_size values submitted before the latest call. *)
Preceding == SubSeq(submitted, ncalls - window_size, ncalls - 1)

(* C1 (as claimed): on a call made with a full window, the mean and the    *)
(* standard deviation used are those of the window_size values submitted   *)
(* before the call, the classified value excluded.                         *)
C1_StatsPrecedeValue ==
    (ValidConfig /\ branch = "active")
        => /\ SameNum(avg, np_mean(Preceding))
           /\ SameNum(std_sq, np_std_sq(Preceding))

(* C2 (as claimed): when the first window_size values all equal c, the     *)
(* next call returns TRUE for a value other than c and FALSE for c.         *)
C2_ZeroVariance ==
    (/\ ValidConfig
     /\ ncalls = window_size + 1
     /\ AllFinite(submitted)
     /\ \A i \in 1..window_size : submitted[i] = submitted[1])
        => (result = (submitted[ncalls] # submitted[1]))

(* C3 (as claimed): the window_size-th call is the first call decided by   *)
(* the threshold rule, hence the first that can return TRUE.               *)
C3_WindowSizeThCallEligible ==
    ValidConfig
        => /\ (ncalls \in 1..(window_size - 1) => branch = "warmup")
           /\ (ncalls = window_size => branch = "active")

(* C3 (amended): each of the first window_size calls takes the warm-up     *)
(* branch and returns FALSE; the (window_size + 1)-th call is the first    *)
(* decided by the threshold rule.                                          *)
C3_FirstEligibleCall ==
    ValidConfig
        => /\ (ncalls \in 1..window_size => branch = "warmup" /\ result = FALSE)
           /\ (ncalls = window_size + 1 => branch = "active")

(* The (window_size + 1)-th call has returned TRUE. *)
C3_Witness ==
    ValidConfig /\ ncalls = window_size + 1 /\ branch = "active" /\ result = TRUE

(* C4: each of the first window_size - 1 calls returns FALSE whatever its  *)
(* value and appends that value to the window.                             *)
C4_WarmUp ==
    (ValidConfig /\ ncalls <= window_size - 1)
        => /\ result = FALSE
           /\ values = submitted

(* Two widely divergent values went through warm-up unflagged. *)
C4_Witness ==
    /\ ValidConfig
    /\ ncalls = 2
    /\ window_size = 3
    /\ submitted[1] = Fin(10)
    /\ submitted[2] = Fin(50)
    /\ result = FALSE

(* C5: the window never exceeds window_size; it always holds the most      *)
(* recently submitted values, oldest first: all of them during warm-up,    *)
(* exactly the last window_size once window_size calls were made.          *)
C5_WindowBound ==
    pc = "ready"
        => /\ Len(values) <= window_size
           /\ values = LastN(submitted, Min(ncalls, window_size))

(* The window has slid twice, past values that differ from what it holds. *)
C5_Witness ==
    /\ pc = "ready"
    /\ window_size >= 2
    /\ ncalls = window_size + 2
    /\ Len(values) = window_size
    /\ submitted[1] # submitted[ncalls]
    /\ submitted[2] # values[1]

(* C6 (as claimed): a non-finite value is rejected and never stored. *)
C6_NonFiniteNeverStored ==
    pc = "ready" => AllFinite(values)

(* C7 (as claimed): every detector that exists has window_size >= 1 and    *)
(* sensitivity > 0.                                                        *)
C7_ValidConfiguration ==
    pc = "ready" => (window_size >= 1 /\ sensitivity.num > 0)

(* C8: detector (4, 1.5): the calls with 1, 2, 3, 4 each return FALSE and  *)
(* the following call with 100 returns TRUE.                               *)
C8_Scenario2 ==
    /\ (/\ ncalls \in 1..4
        /\ submitted = SubSeq(<<Fin(1), Fin(2), Fin(3), Fin(4)>>, 1, ncalls))
           => result = FALSE
    /\ submitted = <<Fin(1), Fin(2), Fin(3), Fin(4), Fin(100)>> => result = TRUE

C8_Witness ==
    /\ submitted = <<Fin(1), Fin(2), Fin(3), Fin(4), Fin(100)>>
    /\ values = <<Fin(2), Fin(3), Fin(4), Fin(100)>>
    /\ result = TRUE

(* C9: once the window is full (ACTIVE) it is full after every later call, *)
(* and the step from WARMING_UP to ACTIVE is the window_size-th call.       *)
C9_Phases ==
    [][ValidConfig
          => /\ (Active => Active')
             /\ ((~Active /\ Active') => ncalls' = window_size)]_vars

(* An ACTIVE detector has taken calls beyond the one that filled it. *)
C9_Witness ==
    ValidConfig /\ window_size >= 2 /\ Active /\ ncalls = window_size + 2

====
